---- MODULE Spec2Model ----
(***************************************************************************)
(* SqlitePoolStore (src/pool/store/sqlite_store.py): the farmer registry,  *)
(* the partial ledgers and the points accounting of the pool, on one       *)
(* shared aiosqlite connection.                                            *)
(*                                                                         *)
(* Every method is a coroutine.  Each `await connection.execute(...)` is   *)
(* one SQL statement, run to completion on the connection's thread; the    *)
(* event loop may switch to another coroutine at every await.  All         *)
(* coroutines share the one connection, hence the one open transaction:    *)
(* `db` is what statements on the connection read and write, `disk` is     *)
(* what the last `connection.commit()` made durable.                       *)
(***************************************************************************)
EXTENDS Integers, Sequences, FiniteSets, Bags, TLC

VARIABLES
    schema,  \* the tables of the database file, fixed by connect()
    db,      \* the connection's view: committed rows and the open transaction
    disk,    \* the committed database
    now,     \* the engine's clock, strftime('%s','now')
    pc,      \* per coroutine: the await it is suspended at
    args,    \* per coroutine: the arguments and locals of the running call,
             \* then the value it returns or the exception it raises
    owed,    \* per launcher: the points inserted or reset to, plus the
             \* difficulties of the add_partial calls that returned since
    snapshot, \* the payout job: the total points of the shares it last read
    paid      \* the payout job: the total points of its finished cycles

vars == <<schema, db, disk, now, pc, args, owed, snapshot, paid>>

----------------------------------------------------------------------------
(* Bounds of the model *)

MaxPartials == 2   \* rows in the partial table
MaxInvalid == 1    \* rows in the invalid_partial table
MaxTicks == 1      \* jumps of the clock
MaxCount == 2      \* the largest count a caller passes

(* '-1 day' in seconds *)
Day == 86400
Now0 == 200000
ClockJump == Day - 1

Procs == {"w1", "w2"}

----------------------------------------------------------------------------
(* bytes.hex() and bytes.fromhex(): a byte string is a sequence of 0..255, *)
(* its hex text a sequence of digit characters, two per byte.              *)

HexDigits == <<"0","1","2","3","4","5","6","7","8","9","a","b","c","d","e","f">>

HexDigit(n) == HexDigits[n + 1]

DigitValue(c) == CHOOSE n \in 0..15 : HexDigits[n + 1] = c

Hex(b) == [i \in 1..(2 * Len(b)) |->
             IF i % 2 = 1 THEN HexDigit(b[(i + 1) \div 2] \div 16)
                          ELSE HexDigit(b[i \div 2] % 16)]

FromHex(s) == [i \in 1..(Len(s) \div 2) |->
                 16 * DigitValue(s[2 * i - 1]) + DigitValue(s[2 * i])]

(* bytes(x) and X.from_bytes(b) of the opaque chia objects *)
G1Element(b) == [g1 |-> b]
CoinSpend(b) == [coin_spend |-> b]
PoolState(b) == [pool_state |-> b]
G1Bytes(x) == x.g1
CoinSpendBytes(x) == x.coin_spend
PoolStateBytes(x) == x.pool_state

(* int(is_pool_member) and `True if row[10] == 1 else False` *)
BoolToInt(b) == IF b THEN 1 ELSE 0
IntToBool(n) == n = 1

----------------------------------------------------------------------------
(* The inputs the callers pass *)

LauncherA == <<10>>
LauncherB == <<27>>
LauncherIds == {LauncherA, LauncherB}

PuzzleHash1 == <<161>>
PuzzleHash2 == <<162>>
PuzzleHash3 == <<163>>
PuzzleHashSets == SUBSET {PuzzleHash1, PuzzleHash2, PuzzleHash3}
Payout1 == Hex(<<193>>)
Payout2 == Hex(<<194>>)

FarmerRecord(l, ph, dt, dph, key, tip, st, pts, diff, pay, mem) ==
    [launcher_id |-> l, p2_singleton_puzzle_hash |-> ph, delay_time |-> dt,
     delay_puzzle_hash |-> dph, authentication_public_key |-> key,
     singleton_tip |-> tip, singleton_tip_state |-> st, points |-> pts,
     difficulty |-> diff, payout_instructions |-> pay, is_pool_member |-> mem]

FarmerA1 ==
    FarmerRecord(LauncherA, PuzzleHash1, 1, <<177>>, G1Element(<<225>>),
                 CoinSpend(<<1>>), PoolState(<<11>>), 0, 1, Payout1, TRUE)
FarmerA2 ==
    FarmerRecord(LauncherA, PuzzleHash2, 2, <<178>>, G1Element(<<226>>),
                 CoinSpend(<<2>>), PoolState(<<12>>), 2, 2, Payout2, FALSE)
FarmerB1 ==
    FarmerRecord(LauncherB, PuzzleHash1, 1, <<177>>, G1Element(<<227>>),
                 CoinSpend(<<1>>), PoolState(<<11>>), 0, 1, Payout1, TRUE)

FarmerRecords == {FarmerA1, FarmerA2, FarmerB1}

Difficulties == {1, 2}
Harvesters == {<<81>>}
SingletonUpdates ==
    { <<CoinSpend(<<2>>), PoolState(<<12>>), FALSE>>,
      <<CoinSpend(<<3>>), PoolState(<<13>>), TRUE>> }

Timestamps == {now - 1, now}
Counts == 0..MaxCount

(* The offset of the local time zone from UTC, in seconds *)
Zones == {0, 7200}
Reasons == {"bad proof"}

----------------------------------------------------------------------------
(* connect(): CREATE TABLE IF NOT EXISTS on the database file.  The file   *)
(* is new, or it is the file of a deployment whose partial table holds     *)
(* the harvester column and which holds an invalid_partial table, the      *)
(* tables add_partial and store_invalid_partial write.                     *)

FarmerColumns ==
    <<"launcher_id", "p2_singleton_puzzle_hash", "delay_time", "delay_puzzle_hash",
      "authentication_public_key", "singleton_tip", "singleton_tip_state",
      "points", "difficulty", "payout_instructions", "is_pool_member">>

CreatedTables ==
    [farmer |-> FarmerColumns,
     partial |-> <<"launcher_id", "timestamp", "difficulty">>]

EmptyFile == [t \in {} |-> <<>>]

DeployedFile ==
    [farmer |-> FarmerColumns,
     partial |-> <<"launcher_id", "timestamp", "difficulty", "harvester">>,
     invalid_partial |->
         <<"launcher_id", "timestamp", "difficulty", "harvester", "reason">>]

Connect(file) ==
    [t \in DOMAIN file \cup DOMAIN CreatedTables |->
        IF t \in DOMAIN file THEN file[t] ELSE CreatedTables[t]]

HasTable(t) == t \in DOMAIN schema
Arity(t) == Len(schema[t])
HasColumn(t, c) == HasTable(t) /\ \E i \in 1..Len(schema[t]) : schema[t][i] = c

EmptyDb == [farmer |-> {}, partial |-> EmptyBag, invalid_partial |-> EmptyBag]

----------------------------------------------------------------------------
(* Return values *)

NoArgs == [op |-> "none"]
None == [none |-> TRUE]

(* The method returns a value to its caller, or an exception leaves it *)
Returns(p, op, v) ==
    /\ pc' = [pc EXCEPT ![p] = "returned"]
    /\ args' = [args EXCEPT ![p] = [op |-> op, value |-> v]]

Raises(p, op, e) ==
    /\ pc' = [pc EXCEPT ![p] = "raised"]
    /\ args' = [args EXCEPT ![p] = [op |-> op, error |-> e]]

Returned(p, op) == pc[p] = "returned" /\ args[p].op = op
Raised(p, e) == pc[p] = "raised" /\ args[p].error = e

Idle(p) == pc[p] = "idle"

(* Sum of the function f over the finite set S *)
RECURSIVE SumOver(_, _)
SumOver(S, f) ==
    IF S = {} THEN 0
    ELSE LET x == CHOOSE y \in S : TRUE IN f[x] + SumOver(S \ {x}, f)

----------------------------------------------------------------------------
(* add_farmer_record *)

FarmerRow(fr) ==
    [launcher_id |-> Hex(fr.launcher_id),
     p2_singleton_puzzle_hash |-> Hex(fr.p2_singleton_puzzle_hash),
     delay_time |-> fr.delay_time,
     delay_puzzle_hash |-> Hex(fr.delay_puzzle_hash),
     authentication_public_key |-> Hex(G1Bytes(fr.authentication_public_key)),
     singleton_tip |-> CoinSpendBytes(fr.singleton_tip),
     singleton_tip_state |-> PoolStateBytes(fr.singleton_tip_state),
     points |-> fr.points,
     difficulty |-> fr.difficulty,
     payout_instructions |-> fr.payout_instructions,
     is_pool_member |-> BoolToInt(fr.is_pool_member)]

_row_to_farmer_record(row) ==
    FarmerRecord(FromHex(row.launcher_id),
                 FromHex(row.p2_singleton_puzzle_hash),
                 row.delay_time,
                 FromHex(row.delay_puzzle_hash),
                 G1Element(FromHex(row.authentication_public_key)),
                 CoinSpend(row.singleton_tip),
                 PoolState(row.singleton_tip_state),
                 row.points,
                 row.difficulty,
                 row.payout_instructions,
                 IntToBool(row.is_pool_member))

(* SELECT * from farmer where launcher_id=? *)
SelectFarmer(d, lid) == {r \in d.farmer : r.launcher_id = lid}

(* launcher_id text PRIMARY KEY *)
PrimaryKeyTaken(d, lid) == SelectFarmer(d, lid) # {}

UpdatedFarmerRowWithPoints(r, fr) ==
    [r EXCEPT !.p2_singleton_puzzle_hash = Hex(fr.p2_singleton_puzzle_hash),
              !.delay_time = fr.delay_time,
              !.delay_puzzle_hash = Hex(fr.delay_puzzle_hash),
              !.authentication_public_key = Hex(G1Bytes(fr.authentication_public_key)),
              !.singleton_tip = CoinSpendBytes(fr.singleton_tip),
              !.singleton_tip_state = PoolStateBytes(fr.singleton_tip_state),
              !.points = fr.points,
              !.payout_instructions = fr.payout_instructions,
              !.is_pool_member = BoolToInt(fr.is_pool_member)]

UpdatedFarmerRowNoDelay(r, fr) ==
    [r EXCEPT !.p2_singleton_puzzle_hash = Hex(fr.p2_singleton_puzzle_hash),
              !.authentication_public_key = Hex(G1Bytes(fr.authentication_public_key)),
              !.singleton_tip = CoinSpendBytes(fr.singleton_tip),
              !.singleton_tip_state = PoolStateBytes(fr.singleton_tip_state),
              !.payout_instructions = fr.payout_instructions,
              !.is_pool_member = BoolToInt(fr.is_pool_member)]

(* UPDATE farmer SET <the eight columns> WHERE launcher_id=? *)
UpdatedFarmerRow(r, fr) ==
    [r EXCEPT !.p2_singleton_puzzle_hash = Hex(fr.p2_singleton_puzzle_hash),
              !.delay_time = fr.delay_time,
              !.delay_puzzle_hash = Hex(fr.delay_puzzle_hash),
              !.authentication_public_key = Hex(G1Bytes(fr.authentication_public_key)),
              !.singleton_tip = CoinSpendBytes(fr.singleton_tip),
              !.singleton_tip_state = PoolStateBytes(fr.singleton_tip_state),
              !.payout_instructions = fr.payout_instructions,
              !.is_pool_member = BoolToInt(fr.is_pool_member)]

UpdateEveryFarmer(d, lid, set) == [d EXCEPT !.farmer = {set[r] : r \in @}]

(* UPDATE farmer SET ... WHERE launcher_id=?: set maps a row to its new value *)
UpdateFarmer(d, lid, set) ==
    [d EXCEPT !.farmer = {IF r.launcher_id = lid THEN set[r] ELSE r : r \in @}]

AddFarmerRecordSelect(p, fr) ==
    /\ Idle(p)
    /\ pc' = [pc EXCEPT ![p] = "afr_write"]
    /\ args' = [args EXCEPT ![p] =
                   [op |-> "add_farmer_record", farmer_record |-> fr,
                    row_is_none |-> SelectFarmer(db, Hex(fr.launcher_id)) = {}]]
    /\ UNCHANGED <<schema, db, disk, now, owed, snapshot, paid>>

AddFarmerRecordInsert(p) ==
    LET fr == args[p].farmer_record
        row == FarmerRow(fr) IN
    /\ pc[p] = "afr_write"
    /\ args[p].row_is_none
    /\ IF PrimaryKeyTaken(db, row.launcher_id)
       THEN /\ Raises(p, "add_farmer_record", "IntegrityError")
            /\ UNCHANGED <<db, owed>>
       ELSE /\ db' = [db EXCEPT !.farmer = @ \cup {row}]
            /\ owed' = [owed EXCEPT ![row.launcher_id] = row.points]
            /\ pc' = [pc EXCEPT ![p] = "commit"]
            /\ args' = [args EXCEPT ![p] = [op |-> "add_farmer_record"]]
    /\ UNCHANGED <<schema, disk, now, snapshot, paid>>

AddFarmerRecordUpdate(p) ==
    LET fr == args[p].farmer_record
        set == [r \in db.farmer |-> UpdatedFarmerRow(r, fr)] IN
    /\ pc[p] = "afr_write"
    /\ ~args[p].row_is_none
    /\ db' = UpdateFarmer(db, Hex(fr.launcher_id), set)
    /\ pc' = [pc EXCEPT ![p] = "commit"]
    /\ args' = [args EXCEPT ![p] = [op |-> "add_farmer_record"]]
    /\ UNCHANGED <<schema, disk, now, owed, snapshot, paid>>

(* The whole call with no other coroutine in between *)
add_farmer_record(d, fr) ==
    LET set == [r \in d.farmer |-> UpdatedFarmerRow(r, fr)] IN
    IF SelectFarmer(d, Hex(fr.launcher_id)) = {}
    THEN [d EXCEPT !.farmer = @ \cup {FarmerRow(fr)}]
    ELSE UpdateFarmer(d, Hex(fr.launcher_id), set)

----------------------------------------------------------------------------
(* update_difficulty *)

(* UPDATE farmer SET difficulty=? WHERE launcher_id=? *)
DifficultySet(r, difficulty) == [r EXCEPT !.difficulty = difficulty]

UpdateDifficulty(p, launcher_id, difficulty) ==
    LET set == [r \in db.farmer |-> DifficultySet(r, difficulty)] IN
    /\ Idle(p)
    /\ db' = UpdateFarmer(db, Hex(launcher_id), set)
    /\ pc' = [pc EXCEPT ![p] = "commit"]
    /\ args' = [args EXCEPT ![p] =
                   [op |-> "update_difficulty", launcher_id |-> Hex(launcher_id)]]
    /\ UNCHANGED <<schema, disk, now, owed, snapshot, paid>>

----------------------------------------------------------------------------
(* update_singleton *)

(* UPDATE farmer SET singleton_tip=?, singleton_tip_state=?, is_pool_member=? *)
(* WHERE launcher_id=?                                                        *)
SingletonSetTipOnly(r, entry) == [r EXCEPT !.singleton_tip = entry[1]]

SingletonSetClearsPoints(r, entry) ==
    [r EXCEPT !.singleton_tip = entry[1],
              !.singleton_tip_state = entry[2],
              !.is_pool_member = entry[3],
              !.points = 0]

SingletonSet(r, entry) ==
    [r EXCEPT !.singleton_tip = entry[1],
              !.singleton_tip_state = entry[2],
              !.is_pool_member = entry[3]]

SingletonEntry(singleton_tip, singleton_tip_state, is_pool_member) ==
    <<CoinSpendBytes(singleton_tip), PoolStateBytes(singleton_tip_state),
      BoolToInt(is_pool_member)>>

UpdateSingleton(p, launcher_id, singleton_tip, singleton_tip_state, is_pool_member) ==
    LET entry == SingletonEntry(singleton_tip, singleton_tip_state, is_pool_member)
        set == [r \in db.farmer |-> SingletonSet(r, entry)] IN
    /\ Idle(p)
    /\ db' = UpdateFarmer(db, Hex(launcher_id), set)
    /\ pc' = [pc EXCEPT ![p] = "commit"]
    /\ args' = [args EXCEPT ![p] = [op |-> "update_singleton"]]
    /\ UNCHANGED <<schema, disk, now, owed, snapshot, paid>>

----------------------------------------------------------------------------
(* add_partial *)

PartialRow(launcher_id, timestamp, difficulty, harvester) ==
    [launcher_id |-> Hex(launcher_id), timestamp |-> timestamp,
     difficulty |-> difficulty, harvester |-> Hex(harvester)]

PointsOverwritten(r, difficulty) == [r EXCEPT !.points = difficulty]

(* UPDATE farmer SET points=points+? WHERE launcher_id=? *)
PointsAdded(r, difficulty) == [r EXCEPT !.points = @ + difficulty]

AddingPartial(p) == pc[p] \in {"ap_update", "commit"} /\ args[p].op = "add_partial"

(* INSERT into partial VALUES(?, ?, ?, ?) *)
AddPartialInsert(p, launcher_id, timestamp, difficulty, harvester) ==
    /\ Idle(p)
    /\ IF Arity("partial") # 4
       THEN /\ Raises(p, "add_partial", "OperationalError")
            /\ UNCHANGED db
       ELSE /\ BagCardinality(db.partial) < MaxPartials
            /\ db' = [db EXCEPT !.partial = @ (+)
                        SetToBag({PartialRow(launcher_id, timestamp, difficulty, harvester)})]
            /\ pc' = [pc EXCEPT ![p] = "ap_update"]
            /\ args' = [args EXCEPT ![p] =
                           [op |-> "add_partial", launcher_id |-> Hex(launcher_id),
                            difficulty |-> difficulty, credit |-> 0]]
    /\ UNCHANGED <<schema, disk, now, owed, snapshot, paid>>

AddPartialUpdate(p) ==
    LET difficulty == args[p].difficulty
        set == [r \in db.farmer |-> PointsAdded(r, difficulty)] IN
    /\ pc[p] = "ap_update"
    /\ db' = UpdateFarmer(db, args[p].launcher_id, set)
    /\ pc' = [pc EXCEPT ![p] = "commit"]
    /\ args' = [args EXCEPT ![p].credit =
                   IF SelectFarmer(db, args[p].launcher_id) # {} THEN difficulty ELSE 0]
    /\ UNCHANGED <<schema, disk, now, owed, snapshot, paid>>

----------------------------------------------------------------------------
(* store_invalid_partial *)

InvalidPartialRow(launcher_id, timestamp, difficulty, harvester, reason) ==
    [launcher_id |-> Hex(launcher_id), timestamp |-> timestamp,
     difficulty |-> difficulty, harvester |-> Hex(harvester), reason |-> reason]

(* INSERT into invalid_partial VALUES(?, ?, ?, ?, ?) *)
StoreInvalidPartial(p, launcher_id, timestamp, difficulty, harvester, reason) ==
    /\ Idle(p)
    /\ IF ~HasTable("invalid_partial") \/ Arity("invalid_partial") # 5
       THEN /\ Raises(p, "store_invalid_partial", "OperationalError")
            /\ UNCHANGED db
       ELSE /\ BagCardinality(db.invalid_partial) < MaxInvalid
            /\ db' = [db EXCEPT !.invalid_partial = @ (+)
                        SetToBag({InvalidPartialRow(launcher_id, timestamp, difficulty,
                                                    harvester, reason)})]
            /\ pc' = [pc EXCEPT ![p] = "commit"]
            /\ args' = [args EXCEPT ![p] = [op |-> "store_invalid_partial"]]
    /\ UNCHANGED <<schema, disk, now, owed, snapshot, paid>>

----------------------------------------------------------------------------
(* clear_farmer_points *)

PointsAndDifficultyCleared(r) == [r EXCEPT !.points = 0, !.difficulty = 0]

(* UPDATE farmer set points=0 *)
PointsCleared(r) == [r EXCEPT !.points = 0]

ClearFarmerPoints(p) ==
    /\ Idle(p)
    /\ db' = [db EXCEPT !.farmer = {PointsCleared(r) : r \in @}]
    /\ pc' = [pc EXCEPT ![p] = "commit"]
    /\ args' = [q \in Procs |->
                  IF q = p THEN [op |-> "clear_farmer_points"]
                  ELSE IF AddingPartial(q) THEN [args[q] EXCEPT !.credit = 0]
                  ELSE args[q]]
    /\ owed' = [l \in DOMAIN owed |-> 0]
    /\ paid' = paid + snapshot
    /\ snapshot' = 0
    /\ UNCHANGED <<schema, disk, now>>

----------------------------------------------------------------------------
(* get_farmer_record *)

get_farmer_record(d, launcher_id) ==
    LET rows == SelectFarmer(d, Hex(launcher_id)) IN
    IF rows = {} THEN None
    ELSE _row_to_farmer_record(CHOOSE r \in rows : TRUE)

GetFarmerRecord(p, launcher_id) ==
    /\ Idle(p)
    /\ Returns(p, "get_farmer_record", get_farmer_record(db, launcher_id))
    /\ UNCHANGED <<schema, db, disk, now, owed, snapshot, paid>>

----------------------------------------------------------------------------
(* get_pay_to_singleton_phs *)

get_pay_to_singleton_phs(d) == {FromHex(r.p2_singleton_puzzle_hash) : r \in d.farmer}

GetPayToSingletonPhs(p) ==
    /\ Idle(p)
    /\ Returns(p, "get_pay_to_singleton_phs", get_pay_to_singleton_phs(db))
    /\ UNCHANGED <<schema, db, disk, now, owed, snapshot, paid>>

----------------------------------------------------------------------------
(* get_farmer_records_for_p2_singleton_phs *)

(* The elements of the set S as a list, in every order *)
Lists(S) ==
    {s \in [1..Cardinality(S) -> S] : \A i, j \in 1..Cardinality(S) : i # j => s[i] # s[j]}

InAnyPhs(r, puzzle_hashes_db) == TRUE

(* WHERE p2_singleton_puzzle_hash in (?,...,?) *)
InPhs(r, puzzle_hashes_db) == r.p2_singleton_puzzle_hash \in puzzle_hashes_db

(* The lists the call may return when it runs the query *)
SelectForPhs(d, puzzle_hashes) ==
    LET puzzle_hashes_db == {Hex(ph) : ph \in puzzle_hashes}
        rows == {r \in d.farmer : InPhs(r, puzzle_hashes_db)} IN
    {[i \in DOMAIN s |-> _row_to_farmer_record(s[i])] : s \in Lists(rows)}

get_farmer_records_for_p2_singleton_phs(d, puzzle_hashes) ==
    IF Cardinality(puzzle_hashes) = 0 THEN {<<>>}
    ELSE SelectForPhs(d, puzzle_hashes)

(* executed: whether the call ran a statement on the connection *)
GetFarmerRecordsForP2SingletonPhs(p, puzzle_hashes) ==
    /\ Idle(p)
    /\ pc' = [pc EXCEPT ![p] = "returned"]
    /\ \E ret \in get_farmer_records_for_p2_singleton_phs(db, puzzle_hashes) :
          args' = [args EXCEPT ![p] =
                      [op |-> "get_farmer_records_for_p2_singleton_phs",
                       puzzle_hashes |-> puzzle_hashes,
                       executed |-> Cardinality(puzzle_hashes) # 0,
                       value |-> ret]]
    /\ UNCHANGED <<schema, db, disk, now, owed, snapshot, paid>>

----------------------------------------------------------------------------
(* strftime('%s', 'now','-1 day')<timestamp: the text is compared as a     *)
(* number with the bigint column.                                          *)
InLastDay(t, timestamp) == t - Day < timestamp

Min(S) == CHOOSE x \in S : \A y \in S : x <= y

(* A nullable column value: NULL, or the value in a one-element tuple *)
NULL == <<>>
NotNull(v) == <<v>>
Value(n) == n[1]

(* SUM(...) over the rows of a bag, every copy counted *)
BagSum(B, f) == SumOver(BagToSet(B), [x \in BagToSet(B) |-> CopiesIn(x, B) * f[x]])

SubBagOf(B, lid) ==
    LET S == {x \in BagToSet(B) : x.launcher_id = lid} IN
    [x \in S |-> CopiesIn(x, B)]

----------------------------------------------------------------------------
(* get_farmer_record_for_all_farmers *)

(* SELECT launcher_id,harvester,difficulty,timestamp,'p' as source FROM partial *)
(* UNION SELECT launcher_id,harvester,difficulty,timestamp,'i' as source        *)
(* FROM invalid_partial                                                         *)
Sourced(x, source) ==
    [launcher_id |-> x.launcher_id, harvester |-> x.harvester,
     difficulty |-> x.difficulty, timestamp |-> x.timestamp, source |-> source]

LedgerUnion(d) ==
    {Sourced(x, "p") : x \in BagToSet(d.partial)}
        \cup {Sourced(x, "i") : x \in BagToSet(d.invalid_partial)}

(* encode_puzzle_hash(bytes.fromhex(row[5]), "xch") *)
encode_puzzle_hash(puzzle_hash, prefix) == [prefix |-> prefix, data |-> puzzle_hash]

SummaryEntry(r, g, t) ==
    LET valid == {x \in g : InLastDay(t, x.timestamp) /\ x.source = "p"}
        invalid == {x \in g : InLastDay(t, x.timestamp) /\ x.source = "i"} IN
    [difficulty |-> r.difficulty,
     points |-> r.points,
     launcher_id |-> r.launcher_id,
     partials24 |-> Cardinality(valid),
     points24 |-> SumOver(valid, [x \in valid |-> x.difficulty]),
     payout_address |-> encode_puzzle_hash(FromHex(r.payout_instructions), "xch"),
     joinDate |-> Min({x.timestamp : x \in g}),
     puzzle_hash |-> r.p2_singleton_puzzle_hash,
     harvesters |-> Cardinality({x.harvester : x \in g}),
     invalid_partials |-> Cardinality(invalid)]

(* FROM farmer JOIN (...) p USING(launcher_id) WHERE is_pool_member=1 *)
(* GROUP BY launcher_id                                               *)
SummaryGroup(d, r) == {x \in LedgerUnion(d) : x.launcher_id = r.launcher_id}

SummaryListed(d, r) == r.is_pool_member = 1 /\ SummaryGroup(d, r) # {}

SummaryReadable ==
    HasColumn("partial", "harvester") /\ HasTable("invalid_partial")

get_farmer_record_for_all_farmers(d, t) ==
    {SummaryEntry(r, SummaryGroup(d, r), t) : r \in {x \in d.farmer : SummaryListed(d, x)}}

GetFarmerRecordForAllFarmers(p) ==
    /\ Idle(p)
    /\ IF SummaryReadable
       THEN Returns(p, "get_farmer_record_for_all_farmers",
                    get_farmer_record_for_all_farmers(db, now))
       ELSE Raises(p, "get_farmer_record_for_all_farmers", "OperationalError")
    /\ UNCHANGED <<schema, db, disk, now, owed, snapshot, paid>>

----------------------------------------------------------------------------
(* get_farmer_points_and_payout_instructions *)

(* FROM farmer LEFT OUTER JOIN partial USING(launcher_id)               *)
(* WHERE farmer.is_pool_member=1 GROUP BY launcher_id having points>0   *)
PayoutListed(r) == r.is_pool_member = 1 /\ r.points > 0

PayoutRow(d, r, t) ==
    LET g == SubBagOf(d.partial, r.launcher_id)
        recent == [x \in {y \in BagToSet(g) : InLastDay(t, y.timestamp)} |-> g[x]] IN
    [points |-> r.points,
     payout_instructions |-> r.payout_instructions,
     joinDate |-> IF BagToSet(g) = {} THEN NULL
                  ELSE NotNull(Min({x.timestamp : x \in BagToSet(g)})),
     points24 |-> BagSum(recent, [x \in BagToSet(recent) |-> x.difficulty])]

PayoutRows(d, t) == {PayoutRow(d, r, t) : r \in {x \in d.farmer : PayoutListed(x)}}

(* points: uint64 = uint64(row[3]) *)
RowPoints(row) == row.points24

(* accumulated[ph] = [points, joined], summed and minimised per ph *)
Accumulated(rows) ==
    LET phs == {FromHex(row.payout_instructions) : row \in rows}
        Of(ph) == {row \in rows : FromHex(row.payout_instructions) = ph} IN
    {<<SumOver(Of(ph), [row \in Of(ph) |-> RowPoints(row)]),
       ph,
       Min({Value(row.joinDate) : row \in Of(ph)})>> : ph \in phs}

(* uint64(row[2]) of a NULL joinDate *)
PayoutRaises(rows) == \E row \in rows : row.joinDate = NULL

get_farmer_points_and_payout_instructions(d, t) == Accumulated(PayoutRows(d, t))

SharesTotal(shares) == SumOver(shares, [e \in shares |-> e[1]])

GetFarmerPointsAndPayoutInstructions(p) ==
    LET ret == get_farmer_points_and_payout_instructions(db, now) IN
    /\ Idle(p)
    /\ IF PayoutRaises(PayoutRows(db, now))
       THEN /\ Raises(p, "get_farmer_points_and_payout_instructions", "TypeError")
            /\ UNCHANGED snapshot
       ELSE /\ Returns(p, "get_farmer_points_and_payout_instructions", ret)
            /\ snapshot' = SharesTotal(ret)
    /\ UNCHANGED <<schema, db, disk, now, owed, paid>>

----------------------------------------------------------------------------
(* get_recent_partials, get_recent_partials_all_farmers *)

(* The rows of the bag B in every order *)
Orderings(B) ==
    {s \in [1..BagCardinality(B) -> BagToSet(B)] :
        \A x \in BagToSet(B) :
            Cardinality({i \in DOMAIN s : s[i] = x}) = CopiesIn(x, B)}

OrderedAsc(s) == \A i \in 1..(Len(s) - 1) : s[i].timestamp <= s[i + 1].timestamp

(* ORDER BY timestamp DESC; rows of one timestamp come in any order *)
OrderedDesc(s) == \A i \in 1..(Len(s) - 1) : s[i].timestamp >= s[i + 1].timestamp

(* LIMIT ?: a negative limit is no limit *)
Limit(s, count) ==
    IF count < 0 \/ count >= Len(s) THEN s ELSE SubSeq(s, 1, count)

(* SELECT timestamp, difficulty from partial WHERE launcher_id=? *)
(* ORDER BY timestamp DESC LIMIT ?                               *)
RecentRows(B, count) == {Limit(s, count) : s \in {o \in Orderings(B) : OrderedDesc(o)}}

(* The lists the call may return *)
get_recent_partials(d, launcher_id, count) ==
    {[i \in DOMAIN rows |-> <<rows[i].timestamp, rows[i].difficulty>>] :
        rows \in RecentRows(SubBagOf(d.partial, Hex(launcher_id)), count)}

GetRecentPartials(p, launcher_id, count) ==
    /\ Idle(p)
    /\ \E ret \in get_recent_partials(db, launcher_id, count) :
          Returns(p, "get_recent_partials", ret)
    /\ UNCHANGED <<schema, db, disk, now, owed, snapshot, paid>>

get_recent_partials_all_farmers(d, count) ==
    {[i \in DOMAIN rows |->
         <<rows[i].timestamp, rows[i].difficulty, rows[i].launcher_id>>] :
        rows \in RecentRows(d.partial, count)}

GetRecentPartialsAllFarmers(p, count) ==
    /\ Idle(p)
    /\ \E ret \in get_recent_partials_all_farmers(db, count) :
          Returns(p, "get_recent_partials_all_farmers", ret)
    /\ UNCHANGED <<schema, db, disk, now, owed, snapshot, paid>>

----------------------------------------------------------------------------
(* get_points_by_date *)

(* strftime('%Y.%m.%d.%H.%M',datetime(timestamp, 'unixepoch')): the minute *)
(* of the timestamp, counted from the epoch                                *)
MinuteOf(timestamp) == timestamp \div 60

(* strftime('%H:%M',datetime(timestamp, 'unixepoch'), 'localtime') *)
HourMinute(timestamp, zone) ==
    LET m == (timestamp + zone) \div 60 IN <<(m \div 60) % 24, m % 60>>

(* The elements of a set of numbers in increasing order *)
Ascending(S) ==
    CHOOSE s \in [1..Cardinality(S) -> S] :
        \A i, j \in 1..Cardinality(S) : i < j => s[i] < s[j]

(* FROM partial WHERE launcher_id=? AND strftime('%s', 'now','-1 day')<timestamp *)
(* GROUP BY <minute> LIMIT count * 60; the groups come out in key order          *)
get_points_by_date(d, launcher_id, count, t, zone) ==
    LET mine == SubBagOf(d.partial, Hex(launcher_id))
        S == {x \in BagToSet(mine) : InLastDay(t, x.timestamp)}
        In(m) == {x \in S : MinuteOf(x.timestamp) = m}
        Points(m) == BagSum([x \in In(m) |-> mine[x]], [x \in In(m) |-> x.difficulty])
        Date(m) == HourMinute((CHOOSE x \in In(m) : TRUE).timestamp, zone)
        groups == Ascending({MinuteOf(x.timestamp) : x \in S})
        rows == Limit(groups, count * 60) IN
    [i \in DOMAIN rows |-> <<Date(rows[i]), Points(rows[i])>>]

GetPointsByDate(p, launcher_id, count, zone) ==
    /\ Idle(p)
    /\ Returns(p, "get_points_by_date",
               get_points_by_date(db, launcher_id, count, now, zone))
    /\ UNCHANGED <<schema, db, disk, now, owed, snapshot, paid>>

----------------------------------------------------------------------------
(* connection.commit(), the last await of every writing method; a task     *)
(* cancelled at an await runs no later statement of its method.            *)

Credit(p) ==
    IF pc[p] = "commit" /\ AddingPartial(p)
    THEN [owed EXCEPT ![args[p].launcher_id] = @ + args[p].credit]
    ELSE owed

Commit(p) ==
    /\ pc[p] = "commit"
    /\ disk' = db
    /\ pc' = [pc EXCEPT ![p] = "idle"]
    /\ args' = [args EXCEPT ![p] = NoArgs]
    /\ owed' = Credit(p)
    /\ UNCHANGED <<schema, db, now, snapshot, paid>>

Cancel(p) ==
    /\ pc[p] \in {"afr_write", "ap_update", "commit"}
    /\ pc' = [pc EXCEPT ![p] = "idle"]
    /\ args' = [args EXCEPT ![p] = NoArgs]
    /\ owed' = Credit(p)
    /\ UNCHANGED <<schema, db, disk, now, snapshot, paid>>

(* The caller takes the value or the exception *)
Finish(p) ==
    /\ pc[p] \in {"returned", "raised"}
    /\ pc' = [pc EXCEPT ![p] = "idle"]
    /\ args' = [args EXCEPT ![p] = NoArgs]
    /\ UNCHANGED <<schema, db, disk, now, owed, snapshot, paid>>

Tick ==
    /\ now < Now0 + MaxTicks * ClockJump
    /\ now' = now + ClockJump
    /\ UNCHANGED <<schema, db, disk, pc, args, owed, snapshot, paid>>

----------------------------------------------------------------------------
LauncherHexIds == {Hex(l) : l \in LauncherIds}

Init ==
    /\ schema \in {Connect(EmptyFile), Connect(DeployedFile)}
    /\ db = EmptyDb
    /\ disk = EmptyDb
    /\ now = Now0
    /\ pc = [p \in Procs |-> "idle"]
    /\ args = [p \in Procs |-> NoArgs]
    /\ owed = [l \in LauncherHexIds |-> 0]
    /\ snapshot = 0
    /\ paid = 0

(* Every method of the store *)
Next ==
    \/ \E p \in Procs, fr \in FarmerRecords : AddFarmerRecordSelect(p, fr)
    \/ \E p \in Procs : AddFarmerRecordInsert(p)
    \/ \E p \in Procs : AddFarmerRecordUpdate(p)
    \/ \E p \in Procs, l \in LauncherIds : GetFarmerRecord(p, l)
    \/ \E p \in Procs : GetFarmerRecordForAllFarmers(p)
    \/ \E p \in Procs, l \in LauncherIds, d \in Difficulties : UpdateDifficulty(p, l, d)
    \/ \E p \in Procs, l \in LauncherIds, e \in SingletonUpdates :
          UpdateSingleton(p, l, e[1], e[2], e[3])
    \/ \E p \in Procs : GetFarmerPointsAndPayoutInstructions(p)
    \/ \E p \in Procs : ClearFarmerPoints(p)
    \/ \E p \in Procs, l \in LauncherIds, t \in Timestamps, d \in Difficulties,
          h \in Harvesters : AddPartialInsert(p, l, t, d, h)
    \/ \E p \in Procs : AddPartialUpdate(p)
    \/ \E p \in Procs, l \in LauncherIds, t \in Timestamps, d \in Difficulties,
          h \in Harvesters, r \in Reasons : StoreInvalidPartial(p, l, t, d, h, r)
    \/ \E p \in Procs : GetPayToSingletonPhs(p)
    \/ \E p \in Procs, phs \in PuzzleHashSets : GetFarmerRecordsForP2SingletonPhs(p, phs)
    \/ \E p \in Procs, l \in LauncherIds, c \in Counts : GetRecentPartials(p, l, c)
    \/ \E p \in Procs, c \in Counts : GetRecentPartialsAllFarmers(p, c)
    \/ \E p \in Procs, l \in LauncherIds, c \in Counts, z \in Zones :
          GetPointsByDate(p, l, c, z)
    \/ \E p \in Procs : Commit(p)
    \/ \E p \in Procs : Cancel(p)
    \/ \E p \in Procs : Finish(p)
    \/ Tick

Spec == Init /\ [][Next]_vars

(* The claims are checked under the specifications below, each the methods *)
(* one part of the store is made of, run by the coroutines and on the      *)
(* inputs named.                                                           *)

(* The farmer registry: registration, the singleton updates and the lookup *)
RegistryStep(P, FR, L) ==
    \/ \E p \in P, fr \in FR : AddFarmerRecordSelect(p, fr)
    \/ \E p \in P : AddFarmerRecordInsert(p)
    \/ \E p \in P : AddFarmerRecordUpdate(p)
    \/ \E p \in P, l \in L, e \in SingletonUpdates :
          UpdateSingleton(p, l, e[1], e[2], e[3])
    \/ \E p \in P, l \in L : GetFarmerRecord(p, l)
    \/ \E p \in P : Commit(p)
    \/ \E p \in P : Cancel(p)
    \/ \E p \in P : Finish(p)

NextRegistry == RegistryStep(Procs, FarmerRecords, LauncherIds)

SpecRegistry == Init /\ [][NextRegistry]_vars

(* The ledger and the points accumulator *)
LedgerStep(P, FR, L, D) ==
    \/ \E p \in P, fr \in FR : AddFarmerRecordSelect(p, fr)
    \/ \E p \in P : AddFarmerRecordInsert(p)
    \/ \E p \in P : AddFarmerRecordUpdate(p)
    \/ \E p \in P, l \in L, d \in D, h \in Harvesters :
          AddPartialInsert(p, l, now, d, h)
    \/ \E p \in P : AddPartialUpdate(p)
    \/ \E p \in P : ClearFarmerPoints(p)
    \/ \E p \in P : Commit(p)
    \/ \E p \in P : Cancel(p)
    \/ \E p \in P : Finish(p)

NextLedger == LedgerStep(Procs, {FarmerA1, FarmerB1}, LauncherIds, Difficulties)

SpecLedger == Init /\ [][NextLedger]_vars

(* Registration over a registry and ledgers that hold rows *)
UpsertStep(P, FR, L, D) ==
    \/ \E p \in P, fr \in FR : AddFarmerRecordSelect(p, fr)
    \/ \E p \in P : AddFarmerRecordInsert(p)
    \/ \E p \in P : AddFarmerRecordUpdate(p)
    \/ \E p \in P, l \in L, d \in D : UpdateDifficulty(p, l, d)
    \/ \E p \in P, l \in L, d \in D, h \in Harvesters :
          AddPartialInsert(p, l, now, d, h)
    \/ \E p \in P : AddPartialUpdate(p)
    \/ \E p \in P, l \in L, d \in D, h \in Harvesters, r \in Reasons :
          StoreInvalidPartial(p, l, now, d, h, r)
    \/ \E p \in P : Commit(p)
    \/ \E p \in P : Finish(p)

NextUpsert == UpsertStep(Procs, FarmerRecords, {LauncherA}, {2})

SpecUpsert == Init /\ [][NextUpsert]_vars

(* Every writing method, and the lookup *)
AccountStep(P, FR, L, D) ==
    \/ \E p \in P, fr \in FR : AddFarmerRecordSelect(p, fr)
    \/ \E p \in P : AddFarmerRecordInsert(p)
    \/ \E p \in P : AddFarmerRecordUpdate(p)
    \/ \E p \in P, l \in LauncherIds, d \in D : UpdateDifficulty(p, l, d)
    \/ \E p \in P, l \in LauncherIds, e \in SingletonUpdates :
          UpdateSingleton(p, l, e[1], e[2], e[3])
    \/ \E p \in P, l \in L, d \in D, h \in Harvesters :
          AddPartialInsert(p, l, now, d, h)
    \/ \E p \in P : AddPartialUpdate(p)
    \/ \E p \in P, l \in L, d \in D, h \in Harvesters, r \in Reasons :
          StoreInvalidPartial(p, l, now, d, h, r)
    \/ \E p \in P : ClearFarmerPoints(p)
    \/ \E p \in P, l \in LauncherIds : GetFarmerRecord(p, l)
    \/ \E p \in P : Commit(p)
    \/ \E p \in P : Finish(p)

NextAccount == AccountStep({"w1"}, FarmerRecords, {LauncherA}, Difficulties)

SpecAccount == Init /\ [][NextAccount]_vars

(* The feeds of the partial ledger *)
FeedStep(P, FR, L, D) ==
    \/ \E p \in P, fr \in FR : AddFarmerRecordSelect(p, fr)
    \/ \E p \in P : AddFarmerRecordInsert(p)
    \/ \E p \in P : AddFarmerRecordUpdate(p)
    \/ \E p \in P, l \in L, t \in Timestamps, d \in D, h \in Harvesters :
          AddPartialInsert(p, l, t, d, h)
    \/ \E p \in P : AddPartialUpdate(p)
    \/ \E p \in P, l \in L, c \in Counts : GetRecentPartials(p, l, c)
    \/ \E p \in P, c \in Counts : GetRecentPartialsAllFarmers(p, c)
    \/ \E p \in P : Commit(p)
    \/ \E p \in P : Finish(p)
    \/ Tick

NextFeed == FeedStep({"w1"}, {FarmerA1}, LauncherIds, Difficulties)

SpecFeed == Init /\ [][NextFeed]_vars

(* The points of a launcher by the minute *)
BucketStep(P, FR, L, D) ==
    \/ \E p \in P, fr \in FR : AddFarmerRecordSelect(p, fr)
    \/ \E p \in P : AddFarmerRecordInsert(p)
    \/ \E p \in P : AddFarmerRecordUpdate(p)
    \/ \E p \in P, l \in L, t \in Timestamps, d \in D, h \in Harvesters :
          AddPartialInsert(p, l, t, d, h)
    \/ \E p \in P : AddPartialUpdate(p)
    \/ \E p \in P, l \in L, c \in Counts, z \in Zones : GetPointsByDate(p, l, c, z)
    \/ \E p \in P : Commit(p)
    \/ \E p \in P : Finish(p)
    \/ Tick

NextBucket == BucketStep({"w1"}, {FarmerA1, FarmerB1}, LauncherIds, Difficulties)

SpecBucket == Init /\ [][NextBucket]_vars

(* The lookups by puzzle hash *)
LookupStep(P, FR) ==
    \/ \E p \in P, fr \in FR : AddFarmerRecordSelect(p, fr)
    \/ \E p \in P : AddFarmerRecordInsert(p)
    \/ \E p \in P : AddFarmerRecordUpdate(p)
    \/ \E p \in P : GetPayToSingletonPhs(p)
    \/ \E p \in P, phs \in PuzzleHashSets : GetFarmerRecordsForP2SingletonPhs(p, phs)
    \/ \E p \in P : Commit(p)
    \/ \E p \in P : Finish(p)

NextLookup == LookupStep(Procs, FarmerRecords)

SpecLookup == Init /\ [][NextLookup]_vars

(* The join dates of the payout shares and of the summary *)
JoinStep(P, FR, L, D) ==
    \/ \E p \in P, fr \in FR : AddFarmerRecordSelect(p, fr)
    \/ \E p \in P : AddFarmerRecordInsert(p)
    \/ \E p \in P : AddFarmerRecordUpdate(p)
    \/ \E p \in P, l \in L, e \in SingletonUpdates :
          UpdateSingleton(p, l, e[1], e[2], e[3])
    \/ \E p \in P, l \in L, t \in Timestamps, d \in D, h \in Harvesters :
          AddPartialInsert(p, l, t, d, h)
    \/ \E p \in P : AddPartialUpdate(p)
    \/ \E p \in P, l \in L, t \in Timestamps, d \in D, h \in Harvesters,
          r \in Reasons : StoreInvalidPartial(p, l, t, d, h, r)
    \/ \E p \in P : GetFarmerPointsAndPayoutInstructions(p)
    \/ \E p \in P : GetFarmerRecordForAllFarmers(p)
    \/ \E p \in P : Commit(p)
    \/ \E p \in P : Finish(p)

NextJoin == JoinStep({"w1"}, FarmerRecords, LauncherIds, {1})

SpecJoin == Init /\ [][NextJoin]_vars

(* The dashboard summary over the registry and both ledgers *)
SummaryStep(P, FR, L, D) ==
    \/ \E p \in P, fr \in FR : AddFarmerRecordSelect(p, fr)
    \/ \E p \in P : AddFarmerRecordInsert(p)
    \/ \E p \in P : AddFarmerRecordUpdate(p)
    \/ \E p \in P, l \in L, t \in Timestamps, d \in D, h \in Harvesters :
          AddPartialInsert(p, l, t, d, h)
    \/ \E p \in P : AddPartialUpdate(p)
    \/ \E p \in P, l \in L, t \in Timestamps, d \in D, h \in Harvesters,
          r \in Reasons : StoreInvalidPartial(p, l, t, d, h, r)
    \/ \E p \in P : ClearFarmerPoints(p)
    \/ \E p \in P : GetFarmerRecordForAllFarmers(p)
    \/ \E p \in P : Commit(p)
    \/ \E p \in P : Finish(p)
    \/ Tick

NextSummary == SummaryStep({"w1"}, FarmerRecords, LauncherIds, Difficulties)

SpecSummary == Init /\ [][NextSummary]_vars

(* The payout job: read the shares, then reset the points *)
PayoutStep(P, FR, L, D) ==
    \/ \E p \in P, fr \in FR : AddFarmerRecordSelect(p, fr)
    \/ \E p \in P : AddFarmerRecordInsert(p)
    \/ \E p \in P : AddFarmerRecordUpdate(p)
    \/ \E p \in P, l \in L, d \in D, h \in Harvesters :
          AddPartialInsert(p, l, now, d, h)
    \/ \E p \in P : AddPartialUpdate(p)
    \/ \E p \in P : GetFarmerPointsAndPayoutInstructions(p)
    \/ \E p \in P : ClearFarmerPoints(p)
    \/ \E p \in P : Commit(p)
    \/ \E p \in P : Finish(p)
    \/ Tick

NextPayout == PayoutStep(Procs, {FarmerA1, FarmerB1}, LauncherIds, Difficulties)

SpecPayout == Init /\ [][NextPayout]_vars

----------------------------------------------------------------------------
(* C1: for an existing farmer, under every interleaving of add_partial     *)
(* calls, the points equal the value inserted or reset to plus the         *)
(* difficulties of all the calls whose increment ran since: none is lost.  *)

InFlightCredit(lid) ==
    SumOver({p \in Procs : pc[p] = "commit" /\ AddingPartial(p)
                              /\ args[p].launcher_id = lid},
            [p \in Procs |-> IF AddingPartial(p) THEN args[p].credit ELSE 0])

C1_NoLostIncrement ==
    \A r \in db.farmer :
        r.points = owed[r.launcher_id] + InFlightCredit(r.launcher_id)

C1_Witness ==
    /\ \A p \in Procs : pc[p] = "commit" /\ AddingPartial(p)
                            /\ args[p].launcher_id = Hex(LauncherA)
    /\ args["w1"].credit = 1
    /\ args["w2"].credit = 2
    /\ \E r \in db.farmer : r.launcher_id = Hex(LauncherA) /\ r.points = 3

(* C2: the shares returned hold exactly one entry per payout destination   *)
(* of the pool members with points > 0, its total the sum of the points of *)
(* the farmers that share the destination (read while no add_partial call  *)
(* is between its two statements).                                         *)

PointsOf(rows) == SumOver(rows, [r \in rows |-> r.points])

C2_SharesSumPoints ==
    LET rows == PayoutRows(db, now)
        shares == get_farmer_points_and_payout_instructions(db, now)
        paying == {r \in db.farmer : r.is_pool_member = 1 /\ r.points > 0}
        dests == {FromHex(r.payout_instructions) : r \in paying} IN
    (~PayoutRaises(rows) /\ \A p \in Procs : pc[p] # "ap_update") =>
        /\ {e[2] : e \in shares} = dests
        /\ Cardinality(shares) = Cardinality(dests)
        /\ \A e \in shares :
              e[1] = PointsOf({r \in paying : FromHex(r.payout_instructions) = e[2]})

(* C3: over the payout cycles (the shares read, then the points reset) no  *)
(* partial is counted twice: the shares are sums of ledger difficulties,   *)
(* so the cycles together pay out at most the difficulty of the ledger.    *)
C3_CountedOnce ==
    paid <= BagSum(db.partial, [x \in BagToSet(db.partial) |-> x.difficulty])

(* C4: the summary lists every pool member once, also one with no ledger   *)
(* entry yet, and no farmer that is not a member.                          *)
C4_EveryMemberListed ==
    SummaryReadable =>
        \A r \in db.farmer :
            Cardinality({e \in get_farmer_record_for_all_farmers(db, now) :
                           e.launcher_id = r.launcher_id})
                = IF r.is_pool_member = 1 THEN 1 ELSE 0

(* C5: for every farmer listed, partials24 is the number of partials       *)
(* recorded for it in the last day, each call counted once, and points24   *)
(* the sum of their difficulties.                                          *)
C5_WindowCounts ==
    SummaryReadable =>
        \A e \in get_farmer_record_for_all_farmers(db, now) :
            LET mine == SubBagOf(db.partial, e.launcher_id)
                S == {x \in BagToSet(mine) : InLastDay(now, x.timestamp)}
                recent == [x \in S |-> mine[x]] IN
            /\ e.partials24 = BagCardinality(recent)
            /\ e.points24 = BagSum(recent, [x \in S |-> x.difficulty])

(* C6: no add_farmer_record call fails with a duplicate primary key *)
C6_NoDuplicateKeyError == \A p \in Procs : ~Raised(p, "IntegrityError")

(* C7: on an existing record, add_farmer_record leaves the farmer's points *)
(* and difficulty, every other farmer row and both ledgers unchanged.      *)

SameBut(d1, d2, lid) ==
    /\ d2.partial = d1.partial
    /\ d2.invalid_partial = d1.invalid_partial
    /\ Cardinality(d2.farmer) = Cardinality(d1.farmer)
    /\ \A r \in d1.farmer :
          IF r.launcher_id = lid
          THEN \E r2 \in d2.farmer : /\ r2.launcher_id = lid
                                      /\ r2.points = r.points
                                      /\ r2.difficulty = r.difficulty
          ELSE r \in d2.farmer

C7_UpsertFrame ==
    [][\A p \in Procs :
         /\ (Idle(p) /\ pc'[p] = "afr_write") => db' = db
         /\ (pc[p] = "afr_write" /\ ~args[p].row_is_none /\ pc'[p] = "commit")
               => SameBut(db, db', Hex(args[p].farmer_record.launcher_id))
         /\ (pc[p] = "commit" /\ args[p].op = "add_farmer_record" /\ Idle(p)')
               => db' = db]_vars

C7_Witness ==
    \E p \in Procs :
        /\ pc[p] = "afr_write"
        /\ ~args[p].row_is_none
        /\ \E r \in db.farmer :
              /\ r.launcher_id = Hex(args[p].farmer_record.launcher_id)
              /\ r.points # args[p].farmer_record.points
              /\ r.difficulty # args[p].farmer_record.difficulty
        /\ \E r \in db.farmer : r.launcher_id # Hex(args[p].farmer_record.launcher_id)
        /\ db.partial # EmptyBag
        /\ db.invalid_partial # EmptyBag

(* C8: add_farmer_record(F) followed at once by get_farmer_record returns  *)
(* F's mutable fields, and a second identical call changes nothing.        *)

MutableFields(fr) ==
    <<fr.p2_singleton_puzzle_hash, fr.delay_time, fr.delay_puzzle_hash,
      fr.authentication_public_key, fr.singleton_tip, fr.singleton_tip_state,
      fr.payout_instructions, fr.is_pool_member>>

C8_UpsertThenGet ==
    \A fr \in FarmerRecords :
        LET d1 == add_farmer_record(db, fr)
            got == get_farmer_record(d1, fr.launcher_id) IN
        /\ got # None
        /\ MutableFields(got) = MutableFields(fr)
        /\ add_farmer_record(d1, fr) = d1

C8_Witness ==
    \E p \in Procs :
        /\ pc[p] = "commit"
        /\ args[p].op = "add_farmer_record"
        /\ get_farmer_record(db, LauncherA) # None
        /\ MutableFields(get_farmer_record(db, LauncherA)) = MutableFields(FarmerA2)
        /\ get_farmer_record(db, LauncherA).points = FarmerA1.points
        /\ get_farmer_record(disk, LauncherA) # None
        /\ MutableFields(get_farmer_record(disk, LauncherA)) = MutableFields(FarmerA1)

(* C9: the ledger row of an add_partial call is never committed while the  *)
(* call has not yet incremented the points of its existing farmer.         *)
C9_PartialIsOneUnit ==
    \A p \in Procs :
        (pc[p] = "ap_update" /\ SelectFarmer(disk, args[p].launcher_id) # {})
            => disk.partial # db.partial

(* C10: a read never returns a record in which only some of singleton_tip, *)
(* singleton_tip_state and is_pool_member carry the values of one call.    *)

SingletonFields(fr) == <<fr.singleton_tip, fr.singleton_tip_state, fr.is_pool_member>>

WrittenTogether ==
    {SingletonFields(fr) : fr \in FarmerRecords} \cup SingletonUpdates

C10_SingletonAtomic ==
    \A p \in Procs :
        (Returned(p, "get_farmer_record") /\ args[p].value # None)
            => SingletonFields(args[p].value) \in WrittenTogether

C10_Witness ==
    \E p, q \in Procs :
        /\ Returned(p, "get_farmer_record")
        /\ args[p].value # None
        /\ args[p].value.launcher_id = LauncherA
        /\ SingletonFields(args[p].value) = <<CoinSpend(<<3>>), PoolState(<<13>>), TRUE>>
        /\ pc[q] = "commit"
        /\ args[q].op = "update_singleton"
        /\ get_farmer_record(disk, LauncherA) # None
        /\ MutableFields(get_farmer_record(disk, LauncherA)) = MutableFields(FarmerA2)

----------------------------------------------------------------------------
(* C11: the statement of clear_farmer_points leaves every farmer with      *)
(* points 0, and keeps the set of farmers, every other field of every      *)
(* farmer and every row of both ledgers; its commit writes nothing more.   *)

ClearingPoints(p) == pc[p] = "commit" /\ args[p].op = "clear_farmer_points"

OtherThanPoints(r) == [r EXCEPT !.points = 0]

C11_ClearFrame ==
    [][\A p \in Procs :
         /\ (Idle(p) /\ ClearingPoints(p)') =>
               /\ \A r \in db'.farmer : r.points = 0
               /\ {r.launcher_id : r \in db'.farmer} = {r.launcher_id : r \in db.farmer}
               /\ Cardinality(db'.farmer) = Cardinality(db.farmer)
               /\ \A r \in db.farmer : \E r2 \in db'.farmer :
                      OtherThanPoints(r2) = OtherThanPoints(r)
               /\ db'.partial = db.partial
               /\ db'.invalid_partial = db.invalid_partial
         /\ (ClearingPoints(p) /\ Idle(p)') => db' = db]_vars

C11_Witness ==
    \E p \in Procs :
        /\ ClearingPoints(p)
        /\ Cardinality(db.farmer) = 2
        /\ \A r \in db.farmer : r.points = 0 /\ r.difficulty > 0
        /\ \E r \in disk.farmer : r.points = 3
        /\ db.partial # EmptyBag
        /\ db.invalid_partial # EmptyBag

(* C12: a step changes the points of a farmer only if it is the increment  *)
(* of an add_partial call for that farmer, which adds the difficulty of    *)
(* the call, or the statement of clear_farmer_points, which sets it to 0.  *)

PointsIn(d, lid) == (CHOOSE r \in SelectFarmer(d, lid) : TRUE).points

C12_PointsChange ==
    [][\A lid \in LauncherHexIds :
         (SelectFarmer(db, lid) # {} /\ SelectFarmer(db', lid) # {}) =>
            IF \E p \in Procs : Idle(p) /\ ClearingPoints(p)'
            THEN PointsIn(db', lid) = 0
            ELSE IF \E p \in Procs : /\ pc[p] = "ap_update"
                                     /\ pc'[p] = "commit"
                                     /\ args[p].launcher_id = lid
            THEN \E p \in Procs : /\ pc[p] = "ap_update"
                                  /\ PointsIn(db', lid) = PointsIn(db, lid) + args[p].difficulty
            ELSE PointsIn(db', lid) = PointsIn(db, lid)]_vars

C12_Witness ==
    \E p \in Procs :
        /\ pc[p] = "commit"
        /\ args[p].op \in {"update_singleton", "update_difficulty",
                           "store_invalid_partial", "add_farmer_record"}
        /\ db # disk
        /\ \E r \in db.farmer : r.points = 3 /\ r.launcher_id = Hex(LauncherA)
        /\ \E r \in disk.farmer : r.points = 3 /\ r.launcher_id = Hex(LauncherA)

(* C15: update_difficulty raises nothing; for a launcher_id with no farmer  *)
(* row it leaves the database as it was, and for one with a row it sets    *)
(* the difficulty of that row and no other field of any row.               *)

C15_UpdateDifficulty ==
    [][\A p \in Procs :
         /\ \A l \in LauncherIds, d \in Difficulties :
               UpdateDifficulty(p, l, d) =>
                  /\ pc'[p] # "raised"
                  /\ db'.partial = db.partial
                  /\ db'.invalid_partial = db.invalid_partial
                  /\ Cardinality(db'.farmer) = Cardinality(db.farmer)
                  /\ \A r \in db.farmer :
                        IF r.launcher_id = Hex(l)
                        THEN [r EXCEPT !.difficulty = d] \in db'.farmer
                        ELSE r \in db'.farmer
                  /\ SelectFarmer(db, Hex(l)) = {} => db' = db
         /\ (pc[p] = "commit" /\ args[p].op = "update_difficulty" /\ Idle(p)')
               => db' = db]_vars

C15_Witness ==
    \E p \in Procs :
        /\ pc[p] = "commit"
        /\ args[p].op = "update_difficulty"
        /\ SelectFarmer(db, args[p].launcher_id) = {}
        /\ db.farmer # {}
        /\ db.partial # EmptyBag
        /\ db = disk

(* C13: for every launcher id and every count >= 0, every list             *)
(* get_recent_partials may return holds at most count entries, each a      *)
(* partial of that launcher, in non-increasing order of timestamp, and no  *)
(* partial left out is later than one returned.                            *)

Occurrences(v, e) == Cardinality({i \in DOMAIN v : v[i] = e})

C13_RecentPartials ==
    \A l \in LauncherIds, count \in Counts :
        \A v \in get_recent_partials(db, l, count) :
            LET mine == SubBagOf(db.partial, Hex(l))
                Rows(e) == {x \in BagToSet(mine) : <<x.timestamp, x.difficulty>> = e}
                Held(e) == SumOver(Rows(e), [x \in Rows(e) |-> mine[x]])
                At(t) == {x \in BagToSet(mine) : x.timestamp = t}
                HeldAt(t) == SumOver(At(t), [x \in At(t) |-> mine[x]])
                GotAt(t) == Cardinality({i \in DOMAIN v : v[i][1] = t}) IN
            /\ Len(v) <= count
            /\ \A i \in DOMAIN v : Occurrences(v, v[i]) <= Held(v[i])
            /\ \A i \in 1..(Len(v) - 1) : v[i][1] >= v[i + 1][1]
            /\ \A x \in BagToSet(mine) :
                  HeldAt(x.timestamp) > GotAt(x.timestamp)
                      => \A i \in DOMAIN v : v[i][1] >= x.timestamp

C13_Witness ==
    \E p \in Procs :
        /\ Returned(p, "get_recent_partials")
        /\ args[p].value \in get_recent_partials(db, LauncherA, 1)
        /\ Len(args[p].value) = 1
        /\ \E x, y \in BagToSet(SubBagOf(db.partial, Hex(LauncherA))) :
              /\ x.timestamp < y.timestamp
              /\ args[p].value[1] = <<y.timestamp, y.difficulty>>

(* C16: get_points_by_date(launcher_id, count) returns at most count       *)
(* entries, one per minute, each with the sum of the difficulties of the   *)
(* launcher's partials of that minute within the last day.                 *)
C16_PointsByTimeBucket ==
    \A l \in LauncherIds, count \in Counts, z \in Zones :
        LET v == get_points_by_date(db, l, count, now, z)
            mine == SubBagOf(db.partial, Hex(l))
            In(date) == {x \in BagToSet(mine) : /\ InLastDay(now, x.timestamp)
                                               /\ HourMinute(x.timestamp, z) = date} IN
        /\ Len(v) <= count
        /\ \A i, j \in DOMAIN v : i # j => v[i][1] # v[j][1]
        /\ \A i \in DOMAIN v :
              v[i][2] = BagSum([x \in In(v[i][1]) |-> mine[x]],
                               [x \in In(v[i][1]) |-> x.difficulty])

(* C14: for the empty set get_farmer_records_for_p2_singleton_phs returns  *)
(* the empty list and runs no statement; for any other set every list it   *)
(* may return holds each farmer record whose p2_singleton_puzzle_hash is   *)
(* in the set once, and no other record.                                   *)

PhsMatches(d, puzzle_hashes) ==
    {fr \in {_row_to_farmer_record(r) : r \in d.farmer} :
        fr.p2_singleton_puzzle_hash \in puzzle_hashes}

C14_ByPuzzleHashes ==
    /\ \A p \in Procs :
          (Returned(p, "get_farmer_records_for_p2_singleton_phs")
              /\ args[p].puzzle_hashes = {})
             => args[p].value = <<>> /\ ~args[p].executed
    /\ \A phs \in PuzzleHashSets \ {{}} :
          \A v \in get_farmer_records_for_p2_singleton_phs(db, phs) :
              /\ {v[i] : i \in DOMAIN v} = PhsMatches(db, phs)
              /\ Len(v) = Cardinality(PhsMatches(db, phs))

C14_Witness ==
    \E p, q \in Procs :
        /\ Returned(p, "get_farmer_records_for_p2_singleton_phs")
        /\ args[p].puzzle_hashes = {}
        /\ Returned(q, "get_farmer_records_for_p2_singleton_phs")
        /\ args[q].puzzle_hashes = {PuzzleHash1, PuzzleHash3}
        /\ Len(args[q].value) = 1
        /\ args[q].value[1].launcher_id = LauncherB
        /\ Cardinality(db.farmer) = 2

(* C17: the window of the summary is closed below: for every farmer listed *)
(* partials24, points24 and invalid_partials count the ledger entries of   *)
(* the farmer with now - 1 day <= timestamp, the one at exactly            *)
(* now - 1 day included, and no earlier one.                               *)

InClosedDay(t, timestamp) == t - Day <= timestamp

C17_WindowClosedBelow ==
    SummaryReadable =>
        \A e \in get_farmer_record_for_all_farmers(db, now) :
            LET g == {x \in LedgerUnion(db) : x.launcher_id = e.launcher_id}
                valid == {x \in g : InClosedDay(now, x.timestamp) /\ x.source = "p"}
                invalid == {x \in g : InClosedDay(now, x.timestamp) /\ x.source = "i"} IN
            /\ e.partials24 = Cardinality(valid)
            /\ e.points24 = SumOver(valid, [x \in valid |-> x.difficulty])
            /\ e.invalid_partials = Cardinality(invalid)

(* C18: get_farmer_points_and_payout_instructions never fails on a member  *)
(* with points > 0 and no ledger entry, and the join date of each share is *)
(* the least, over the farmers merged into it, of the earliest timestamp   *)
(* among the farmer's valid and invalid ledger entries.                    *)

JoinDate(d, lid) == Min({x.timestamp : x \in {y \in LedgerUnion(d) : y.launcher_id = lid}})

C18_EarliestJoinDate ==
    /\ \A p \in Procs : ~Raised(p, "TypeError")
    /\ ~PayoutRaises(PayoutRows(db, now)) =>
          \A e \in get_farmer_points_and_payout_instructions(db, now) :
              LET merged == {r \in db.farmer : /\ PayoutListed(r)
                                               /\ FromHex(r.payout_instructions) = e[2]} IN
              e[3] = Min({JoinDate(db, r.launcher_id) : r \in merged})

(* C19: add_partial for a launcher id with no farmer row raises nothing,   *)
(* appends its row to the partial table, creates no farmer row and changes *)
(* the points of no farmer.                                                *)
C19_UnknownLauncher ==
    [][\A p \in Procs :
         /\ \A l \in LauncherIds, d \in Difficulties, h \in Harvesters :
               (AddPartialInsert(p, l, now, d, h) /\ SelectFarmer(db, Hex(l)) = {}) =>
                  /\ pc'[p] # "raised"
                  /\ db'.partial = db.partial (+) SetToBag({PartialRow(l, now, d, h)})
                  /\ db'.farmer = db.farmer
         /\ (AddPartialUpdate(p) /\ SelectFarmer(db, args[p].launcher_id) = {}) =>
               /\ pc'[p] # "raised"
               /\ db' = db
         /\ (pc[p] = "commit" /\ args[p].op = "add_partial" /\ Idle(p)') => db' = db]_vars

(* C20: on the database connect() created from an empty file, add_partial, *)
(* store_invalid_partial and get_farmer_record_for_all_farmers complete    *)
(* without an error of the storage engine.                                 *)
C20_FreshSchema ==
    schema = Connect(EmptyFile) =>
        \A p \in Procs :
            ~(/\ Raised(p, "OperationalError")
              /\ args[p].op \in {"add_partial", "store_invalid_partial",
                                 "get_farmer_record_for_all_farmers"})

====
